---- MODULE Spec2Model ----
(***************************************************************************)
(* Model of three pieces of vscode-azuretools:                             *)
(*   - createTreeItemsWithErrorHandling (ui, src/unnamed/part_000)         *)
(*   - connectToGitHub and its helpers (appservice/src/connectToGitHub.ts) *)
(*   - createAppService (appservice/src/createAppService)                  *)
(* Each has its own specification (SpecTree, SpecGitHub, SpecCreate); the  *)
(* variables of the other two stay at their initial values.                *)
(***************************************************************************)
EXTENDS Integers, Sequences, FiniteSets, TLC

\* ------------------------------------------------------------------------
\* Bounds
\* ------------------------------------------------------------------------
NumSources == 3
MaxOrgPages == 2
MaxRepoPages == 3
ReposPerPage == 2
MaxLearnMore == 2
NumNameCallers == 2

\* ------------------------------------------------------------------------
\* createTreeItemsWithErrorHandling
\* ------------------------------------------------------------------------
VARIABLES
    treeItems,      \* const treeItems: AzExtTreeItem[] (part_000:115)
    unknownError,   \* let unknownError: any            (part_000:117)
    cb,             \* position of each per-item async callback
    treePc,         \* position of createTreeItemsWithErrorHandling itself
    thrown,         \* history: value thrown by createTreeItem(source)
    labelRes,       \* history: outcome of getLabelOnError(source)
    created,        \* history: outcome of createTreeItem(source)
    unlabelledOrder \* history: sources in the order they were found unlabelled

treeVars == <<treeItems, unknownError, cb, treePc, thrown, labelRes, created, unlabelledOrder>>

\* connectToGitHub (declared here so that every action can frame them)
VARIABLES
    ghPc,           \* position of connectToGitHub / its helpers
    url,            \* requestOptions.url
    nextLink,       \* requestOptions.nextLink
    suppressErrorDisplay, \* context.suppressErrorDisplay
    properties,     \* context.properties (githubLearnMore, githubGoToPortal)
    picksCache,     \* picksCache.picks
    gitHubRepos,    \* local of getGitHubReposQuickPicks
    shownPicks,     \* picks the repository quick pick was given
    orgQuickPick,   \* chosen organization
    reqRet,         \* which call site the running getJsonRequest returns to
    promptRet,      \* which call site the running showGitHubAuthPrompt returns to
    ghResult,       \* "running", "resolved" or "rejected"
    ghError,        \* the error caught by getJsonRequest / thrown by connectToGitHub
    connectErr,     \* err caught at line 81
    reqErr,         \* history: the error the last failed HTTP request threw
    syncErr,        \* history: the error client.syncRepository threw
    orgPages,       \* server: number of pages of /user/orgs
    repoPages,      \* server: number of pages of an organization's repos
    requests,       \* history: URLs requested, in order
    reqInCall,      \* history: requests issued by the running/last getJsonRequest call
    ghLog,          \* history: side effects in order
    learnMores,     \* history: times 'Learn More' was chosen in the running prompt
    promptInput     \* history: the last answer to the dialog of showGitHubAuthPrompt

ghVars == <<ghPc, url, nextLink, suppressErrorDisplay, properties, picksCache,
            gitHubRepos, shownPicks, orgQuickPick, reqRet, promptRet, ghResult,
            orgPages, repoPages, requests, reqInCall, ghLog, learnMores,
            ghError, connectErr, reqErr, syncErr, promptInput>>

\* createAppService
VARIABLES
    caPc,           \* position of createAppService
    appKind,        \* argument appKind
    createOptions,  \* argument createOptions
    hasShowCreating,\* whether showCreatingTreeItem was supplied
    promptSteps,    \* const promptSteps
    executeSteps,   \* const executeSteps
    wizardContext,  \* wizardContext
    promptIdx,      \* wizard: next prompt step to run
    executeIdx,     \* wizard: next execute step to run
    caLog           \* history: steps and callbacks in order

caVars == <<caPc, appKind, createOptions, hasShowCreating, promptSteps, executeSteps,
            wizardContext, promptIdx, executeIdx, caLog>>

\* AppServicePlanListStep
VARIABLES
    plPc,           \* position of the wizard running AppServicePlanListStep
    plCtx,          \* the wizard context the step works on
    plCtx0,         \* history: the wizard context the step was reached with
    plansTask,      \* wizardContext.plansTask: 0 (undefined) or the task it holds
    tasks,          \* the list-all-plans requests started, each with its state
    nameCall,       \* position of each isNameAvailable caller
    awaiting,       \* the task each getPlans caller awaits (0: has not called)
    got,            \* history: what each getPlans caller received
    plPicks,        \* the picks getQuickPicks resolved with
    prompted,       \* history: whether prompt was called
    subWizard       \* what getSubWizard returned

plVars == <<plPc, plCtx, plCtx0, plansTask, tasks, nameCall, awaiting, got, plPicks,
            prompted, subWizard>>

vars == <<treeVars, ghVars, caVars, plVars>>

Sources == 1..NumSources

\* Values a JavaScript throw can carry: one falsy value and two Error objects.
ThrownValues == {"undefined", "E1", "E2"}

\* Labels getLabelOnError can resolve to; "" and "undefined" are falsy.
LabelValues == {"undefined", "", "L1", "L2"}

\* JavaScript truthiness of the values above.
Truthy(v) == v \notin {"undefined", ""}

cantShowItems == "Some items could not be displayed"

\* new InvalidTreeItem(parent, label, error, contextValue, description = 'Invalid')
\* src is a history field: the source whose failure produced the node (0: none).
InvalidTreeItem(src, label, error, description) ==
    [kind |-> "invalid", src |-> src, label |-> label, error |-> error,
     description |-> description]

\* InvalidTreeItem.loadMoreChildrenImpl: throw this._error
loadMoreChildrenImpl(node) == node.error

\* A tree item createTreeItem produced for a source.
RealTreeItem(src) ==
    [kind |-> "real", src |-> src, label |-> "item", error |-> "undefined",
     description |-> ""]

TreeInit ==
    /\ treeItems = <<>>
    /\ unknownError = "undefined"
    /\ cb = [s \in Sources |-> "create"]
    /\ treePc = "awaitAll"
    /\ thrown = [s \in Sources |-> "undefined"]
    /\ labelRes = [s \in Sources |-> "none"]
    /\ created = [s \in Sources |-> "pending"]
    /\ unlabelledOrder = <<>>

\* await createTreeItem(source) resolves with an item: treeItems.push(item)
CreateResolvesItem(s) ==
    /\ treePc = "awaitAll" /\ cb[s] = "create"
    /\ treeItems' = Append(treeItems, RealTreeItem(s))
    /\ cb' = [cb EXCEPT ![s] = "done"]
    /\ created' = [created EXCEPT ![s] = "item"]
    /\ UNCHANGED <<unknownError, treePc, thrown, labelRes, unlabelledOrder>>
    /\ UNCHANGED <<ghVars, caVars, plVars>>

\* await createTreeItem(source) resolves with undefined: nothing is pushed
CreateResolvesNothing(s) ==
    /\ treePc = "awaitAll" /\ cb[s] = "create"
    /\ cb' = [cb EXCEPT ![s] = "done"]
    /\ created' = [created EXCEPT ![s] = "nothing"]
    /\ UNCHANGED <<treeItems, unknownError, treePc, thrown, labelRes, unlabelledOrder>>
    /\ UNCHANGED <<ghVars, caVars, plVars>>

\* createTreeItem(source) throws: the catch block calls getLabelOnError
CreateThrows(s, error) ==
    /\ treePc = "awaitAll" /\ cb[s] = "create"
    /\ cb' = [cb EXCEPT ![s] = "label"]
    /\ created' = [created EXCEPT ![s] = "throw"]
    /\ thrown' = [thrown EXCEPT ![s] = error]
    /\ UNCHANGED <<treeItems, unknownError, treePc, labelRes, unlabelledOrder>>
    /\ UNCHANGED <<ghVars, caVars, plVars>>

\* Mutation of HandleName: the placeholder is given the shared unknownError
\* instead of the error caught for this source.
HandleName_SharedError(s, name) ==
    /\ IF Truthy(name)
         THEN /\ treeItems' = Append(treeItems, InvalidTreeItem(s, name, unknownError, "Invalid"))
              /\ UNCHANGED <<unknownError, unlabelledOrder>>
         ELSE /\ unlabelledOrder' = Append(unlabelledOrder, s)
              /\ unknownError' = IF Truthy(thrown[s]) /\ ~Truthy(unknownError)
                                   THEN thrown[s] ELSE unknownError
              /\ UNCHANGED treeItems
    /\ cb' = [cb EXCEPT ![s] = "done"]

\* The tail of the catch block (lines 132-136), with name the value left in `name`.
HandleName(s, name) ==
    /\ IF Truthy(name)
         THEN /\ treeItems' = Append(treeItems, InvalidTreeItem(s, name, thrown[s], "Invalid"))
              /\ UNCHANGED <<unknownError, unlabelledOrder>>
         ELSE /\ unlabelledOrder' = Append(unlabelledOrder, s)
              /\ unknownError' = IF Truthy(thrown[s]) /\ ~Truthy(unknownError)
                                   THEN thrown[s] ELSE unknownError
              /\ UNCHANGED treeItems
    /\ cb' = [cb EXCEPT ![s] = "done"]

\* await getLabelOnError(source) resolves with name
LabelResolves(s, name) ==
    /\ treePc = "awaitAll" /\ cb[s] = "label"
    /\ HandleName(s, name)
    /\ labelRes' = [labelRes EXCEPT ![s] = name]
    /\ UNCHANGED <<treePc, thrown, created>>
    /\ UNCHANGED <<ghVars, caVars, plVars>>

\* getLabelOnError(source) throws: ignored, name stays undefined
LabelThrows(s) ==
    /\ treePc = "awaitAll" /\ cb[s] = "label"
    /\ HandleName(s, "undefined")
    /\ labelRes' = [labelRes EXCEPT ![s] = "throw"]
    /\ UNCHANGED <<treePc, thrown, created>>
    /\ UNCHANGED <<ghVars, caVars, plVars>>

\* Mutation of TreeReturn: the list is returned as soon as one callback has
\* finished, as if the callbacks were raced instead of all awaited.
TreeReturn_AfterFirstCallback ==
    /\ treePc = "awaitAll"
    /\ \E s \in Sources : cb[s] = "done"
    /\ treeItems' = IF Truthy(unknownError)
                      THEN Append(treeItems, InvalidTreeItem(0, cantShowItems, unknownError, ""))
                      ELSE treeItems
    /\ treePc' = "returned"
    /\ UNCHANGED <<unknownError, cb, thrown, labelRes, created, unlabelledOrder>>
    /\ UNCHANGED <<ghVars, caVars, plVars>>

\* Promise.all resolves once every callback has finished; then lines 140-146.
TreeReturn ==
    /\ treePc = "awaitAll"
    /\ \A s \in Sources : cb[s] = "done"
    /\ treeItems' = IF Truthy(unknownError)
                      THEN Append(treeItems, InvalidTreeItem(0, cantShowItems, unknownError, ""))
                      ELSE treeItems
    /\ treePc' = "returned"
    /\ UNCHANGED <<unknownError, cb, thrown, labelRes, created, unlabelledOrder>>
    /\ UNCHANGED <<ghVars, caVars, plVars>>

TreeNext ==
    \/ \E s \in Sources : CreateResolvesItem(s)
    \/ \E s \in Sources : CreateResolvesNothing(s)
    \/ \E s \in Sources : \E error \in ThrownValues : CreateThrows(s, error)
    \/ \E s \in Sources : \E name \in LabelValues : LabelResolves(s, name)
    \/ \E s \in Sources : LabelThrows(s)
    \/ TreeReturn

\* ------------------------------------------------------------------------
\* connectToGitHub: the GitHub server and the pure helpers
\* ------------------------------------------------------------------------
\* Substrings an error message can contain; an error message is modelled by
\* the set of these it contains (indexOf(marker) > -1 is membership).
Markers == {"Bad credentials", "\"statusCode\":200"}
Messages == SUBSET Markers

NoUrl == [kind |-> "undefined", org |-> 0, page |-> 0]
UserUrl == [kind |-> "user", org |-> 0, page |-> 0]
OrgsUrl(p) == [kind |-> "orgs", org |-> 0, page |-> p]
ReposUrl(o, p) == [kind |-> "repos", org |-> o, page |-> p]
BranchesUrl(repo) == [kind |-> "branches", org |-> repo.org, page |-> repo.name]

\* JSON objects of the GitHub API. A user or organization has `login` and
\* `repos_url` (org is its login), a repository or branch has `name`.
Undefined == [kind |-> "undefined", org |-> 0, name |-> 0]
UserJson == [kind |-> "user", org |-> 0, name |-> 0]
OrgJson(o) == [kind |-> "org", org |-> o, name |-> 0]
RepoJson(o, n) == [kind |-> "repo", org |-> o, name |-> n]
BranchJson(n) == [kind |-> "branch", org |-> 0, name |-> n]

\* json[label] is truthy
HasProp(json, label) ==
    \/ label = "login" /\ json.kind \in {"user", "org"}
    \/ label = "name" /\ json.kind \in {"repo", "branch"}

\* json[label]
Prop(json, label) == IF label = "login" THEN json.org ELSE json.name

\* Server: page p of organization o's repositories. Names descend from page
\* to page and within a page, so that concatenating pages is never sorted.
RepoPage(o, p) ==
    IF p \in 1..repoPages
      THEN [k \in 1..ReposPerPage |->
              RepoJson(o, (repoPages - p) * ReposPerPage + (ReposPerPage - k + 1))]
      ELSE <<>>

\* Server: the response body for a URL (the /user object as a one-element list).
Body(u) ==
    CASE u.kind = "user" -> <<UserJson>>
      [] u.kind = "orgs" -> IF u.page \in 1..orgPages THEN <<OrgJson(u.page)>> ELSE <<>>
      [] u.kind = "repos" -> RepoPage(u.org, u.page)
      [] u.kind = "branches" -> <<BranchJson(1), BranchJson(2)>>
      [] OTHER -> <<>>

\* Server: number of pages of the listing a URL belongs to.
Pages(u) ==
    CASE u.kind = "orgs" -> orgPages
      [] u.kind = "repos" -> repoPages
      [] OTHER -> 1

\* Server: the Link header of the response, as its comma-separated entries;
\* <<>> is no header. GitHub sends it only for listings of more than one page.
LinkHeader(u) ==
    LET at(p) == [u EXCEPT !.page = p]
        P == Pages(u)
    IN  IF P <= 1 \/ u.page \notin 1..P THEN <<>>
        ELSE (IF u.page > 1 THEN <<[rel |-> "prev", url |-> at(u.page - 1)]>> ELSE <<>>)
          \o (IF u.page < P THEN <<[rel |-> "next", url |-> at(u.page + 1)],
                                   [rel |-> "last", url |-> at(P)]>> ELSE <<>>)
          \o (IF u.page > 1 THEN <<[rel |-> "first", url |-> at(1)]>> ELSE <<>>)

\* parseLinkHeaderToGitHubLinkObject: linkMap[rel] = url for each entry in
\* order; a relation that does not occur stays undefined.
parseLinkHeaderToGitHubLinkObject(linkHeader) ==
    [r \in {"prev", "next", "last", "first"} |->
        LET occ == {i \in 1..Len(linkHeader) : linkHeader[i].rel = r}
        IN  IF occ = {} THEN NoUrl
            ELSE linkHeader[CHOOSE i \in occ : \A j \in occ : j <= i].url]

\* getJsonRequest lines 123-127: requestOptions.nextLink after a response to u
NextLinkAfter(u, oldNextLink) ==
    IF Len(LinkHeader(u)) > 0
      THEN parseLinkHeaderToGitHubLinkObject(LinkHeader(u)).next
      ELSE oldNextLink

\* createQuickPickFromJsons(jsons, label): skips a JSON without the label
RECURSIVE createQuickPickFromJsons(_, _)
createQuickPickFromJsons(jsons, label) ==
    IF jsons = <<>> THEN <<>>
    ELSE LET json == Head(jsons)
             rest == createQuickPickFromJsons(Tail(jsons), label)
         IN  IF ~HasProp(json, label) THEN rest
             ELSE <<[label |-> Prop(json, label), data |-> json]>> \o rest

\* The '$(sync) Load More' pick; its label is modelled by -1.
LoadMorePick == [label |-> 0 - 1, data |-> Undefined]

\* Array.prototype.sort with the label comparison (stable insertion sort).
RECURSIVE InsertPick(_, _)
InsertPick(sorted, pick) ==
    IF sorted = <<>> THEN <<pick>>
    ELSE IF Head(sorted).label <= pick.label
           THEN <<Head(sorted)>> \o InsertPick(Tail(sorted), pick)
           ELSE <<pick>> \o sorted

RECURSIVE SortPicks(_)
SortPicks(picks) ==
    IF picks = <<>> THEN <<>>
    ELSE InsertPick(SortPicks(SubSeq(picks, 1, Len(picks) - 1)), picks[Len(picks)])

\* getGitHubReposQuickPicks lines 197-208: the new cache and the returned picks
CachedPicks(cache, repos) == SortPicks(cache \o createQuickPickFromJsons(repos, "name"))

ReturnedPicks(cache, link) ==
    IF link # NoUrl THEN <<LoadMorePick>> \o cache ELSE cache

\* ------------------------------------------------------------------------
\* connectToGitHub: the program
\* ------------------------------------------------------------------------
NoError == [from |-> "none", msg |-> {}]
noToken == [from |-> "No oAuth2 Token.", msg |-> {}]
UserCancelledError == [from |-> "UserCancelledError", msg |-> {}]

GhStart(op, rp) ==
    /\ ghPc = "listSourceControls"
    /\ url = NoUrl
    /\ nextLink = NoUrl
    /\ suppressErrorDisplay = FALSE
    /\ properties = [githubLearnMore |-> FALSE, githubGoToPortal |-> FALSE]
    /\ picksCache = <<>>
    /\ gitHubRepos = <<>>
    /\ shownPicks = <<>>
    /\ orgQuickPick = Undefined
    /\ reqRet = "none"
    /\ promptRet = "none"
    /\ ghResult = "running"
    /\ ghError = NoError
    /\ connectErr = NoError
    /\ reqErr = NoError
    /\ syncErr = NoError
    /\ orgPages = op
    /\ repoPages = rp
    /\ requests = <<>>
    /\ reqInCall = 0
    /\ ghLog = <<>>
    /\ learnMores = 0
    /\ promptInput = "none"

GhInit == \E op \in 1..MaxOrgPages : \E rp \in 1..MaxRepoPages : GhStart(op, rp)

GhFrame == UNCHANGED <<treeVars, caVars, plVars, orgPages, repoPages>>

GhHistFrame == UNCHANGED <<reqErr, syncErr, promptInput>>

\* connectToGitHub rejects with error
Reject(error) ==
    /\ ghPc' = "done"
    /\ ghResult' = "rejected"
    /\ ghError' = error

\* Entry of getJsonRequest(requestOptions, ...) from call site ret
CallGetJsonRequest(ret) ==
    /\ ghPc' = "request"
    /\ reqRet' = ret
    /\ reqInCall' = 0

\* Entry of showGitHubAuthPrompt from call site ret
CallShowGitHubAuthPrompt(ret) ==
    /\ ghPc' = "prompt"
    /\ promptRet' = ret
    /\ learnMores' = 0

\* line 33, token present: lines 41-43 up to the first request
ListSourceControlsToken ==
    /\ ghPc = "listSourceControls"
    /\ url' = UserUrl
    /\ CallGetJsonRequest("user")
    /\ UNCHANGED <<nextLink, suppressErrorDisplay, properties, picksCache, gitHubRepos,
                   shownPicks, orgQuickPick, promptRet, ghResult, ghError, connectErr,
                   requests, ghLog, learnMores>>
    /\ GhHistFrame
    /\ GhFrame

\* line 33-35, no token on the first source control entry
ListSourceControlsNoToken ==
    /\ ghPc = "listSourceControls"
    /\ CallShowGitHubAuthPrompt("noToken")
    /\ UNCHANGED <<url, nextLink, suppressErrorDisplay, properties, picksCache,
                   gitHubRepos, shownPicks, orgQuickPick, reqRet, ghResult, ghError,
                   connectErr, requests, reqInCall, ghLog>>
    /\ GhHistFrame
    /\ GhFrame

\* line 33: client.listSourceControls() fails
ListSourceControlsFails(msg) ==
    /\ ghPc = "listSourceControls"
    /\ Reject([from |-> "listSourceControls", msg |-> msg])
    /\ UNCHANGED <<url, nextLink, suppressErrorDisplay, properties, picksCache,
                   gitHubRepos, shownPicks, orgQuickPick, reqRet, promptRet,
                   connectErr, requests, reqInCall, ghLog, learnMores>>
    /\ GhHistFrame
    /\ GhFrame

\* Mutation of AfterPrompt: the error is thrown without setting
\* context.suppressErrorDisplay.
AfterPrompt_NoSuppress(log, error) ==
    /\ UNCHANGED suppressErrorDisplay
    /\ ghLog' = log
    /\ Reject(IF promptRet = "noToken" THEN noToken ELSE error)

\* showGitHubAuthPrompt returns: the statements after the call, by call site.
\* line 36-38 (no token) and lines 135-137 (Bad credentials); error is the
\* error getJsonRequest caught.
AfterPrompt(log, error) ==
    /\ suppressErrorDisplay' = TRUE
    /\ ghLog' = log \o <<"suppressErrorDisplay">>
    /\ Reject(IF promptRet = "noToken" THEN noToken ELSE error)

\* lines 100-107: the dialog is shown and the user picks 'Learn More'
PromptLearnMore ==
    /\ ghPc = "prompt"
    /\ learnMores < MaxLearnMore
    /\ learnMores' = learnMores + 1
    /\ properties' = [properties EXCEPT !.githubLearnMore = TRUE]
    /\ ghLog' = ghLog \o <<"showErrorMessage", "openUrl">>
    /\ UNCHANGED <<ghPc, url, nextLink, suppressErrorDisplay, picksCache, gitHubRepos,
                   shownPicks, orgQuickPick, reqRet, promptRet, ghResult, ghError,
                   connectErr, requests, reqInCall>>
    /\ promptInput' = "learnMore"
    /\ UNCHANGED <<reqErr, syncErr>>
    /\ GhFrame

\* Mutation of PromptGoToPortal: the choice is recorded but the portal is not
\* opened.
PromptGoToPortal_PortalNotOpened ==
    /\ ghPc = "prompt"
    /\ properties' = [properties EXCEPT !.githubGoToPortal = TRUE]
    /\ AfterPrompt(ghLog \o <<"showErrorMessage">>, ghError)
    /\ promptInput' = "goToPortal"
    /\ UNCHANGED <<url, nextLink, picksCache, gitHubRepos, shownPicks, orgQuickPick,
                   reqRet, promptRet, connectErr, requests, reqInCall, learnMores,
                   reqErr, syncErr>>
    /\ GhFrame

\* lines 101, 110-113: the user picks 'Go to Portal'
PromptGoToPortal ==
    /\ ghPc = "prompt"
    /\ properties' = [properties EXCEPT !.githubGoToPortal = TRUE]
    /\ AfterPrompt(ghLog \o <<"showErrorMessage", "openInPortal">>, ghError)
    /\ UNCHANGED <<url, nextLink, picksCache, gitHubRepos, shownPicks, orgQuickPick,
                   reqRet, promptRet, connectErr, requests, reqInCall, learnMores>>
    /\ promptInput' = "goToPortal"
    /\ UNCHANGED <<reqErr, syncErr>>
    /\ GhFrame

\* line 101: the user dismisses the dialog (input is undefined)
PromptDismissed ==
    /\ ghPc = "prompt"
    /\ AfterPrompt(ghLog \o <<"showErrorMessage">>, ghError)
    /\ UNCHANGED <<url, nextLink, properties, picksCache, gitHubRepos, shownPicks,
                   orgQuickPick, reqRet, promptRet, connectErr, requests, reqInCall,
                   learnMores>>
    /\ promptInput' = "undefined"
    /\ UNCHANGED <<reqErr, syncErr>>
    /\ GhFrame

\* line 122: request(requestOptions) is issued
IssueRequest ==
    /\ ghPc = "request"
    /\ ghPc' = "awaitResponse"
    /\ requests' = Append(requests, url)
    /\ reqInCall' = reqInCall + 1
    /\ UNCHANGED <<url, nextLink, suppressErrorDisplay, properties, picksCache,
                   gitHubRepos, shownPicks, orgQuickPick, reqRet, promptRet, ghResult,
                   ghError, connectErr, ghLog, learnMores>>
    /\ GhHistFrame
    /\ GhFrame

\* Mutation of ResponseFails: a failure other than 'Bad credentials' is
\* retried by issuing the request again.
ResponseFails_Retries(msg) ==
    /\ ghPc = "awaitResponse"
    /\ IF "Bad credentials" \in msg
         THEN /\ CallShowGitHubAuthPrompt("getJsonRequest")
              /\ ghError' = [from |-> "request", msg |-> msg]
              /\ UNCHANGED ghResult
         ELSE /\ ghPc' = "request"
              /\ UNCHANGED <<promptRet, learnMores, ghResult, ghError>>
    /\ UNCHANGED <<url, nextLink, suppressErrorDisplay, properties, picksCache,
                   gitHubRepos, shownPicks, orgQuickPick, reqRet, connectErr,
                   requests, reqInCall, ghLog>>
    /\ reqErr' = [from |-> "request", msg |-> msg]
    /\ UNCHANGED <<syncErr, promptInput>>
    /\ GhFrame

\* lines 130-138: the request fails with a message msg
ResponseFails(msg) ==
    /\ ghPc = "awaitResponse"
    /\ IF "Bad credentials" \in msg
         THEN /\ CallShowGitHubAuthPrompt("getJsonRequest")
              /\ ghError' = [from |-> "request", msg |-> msg]
              /\ UNCHANGED ghResult
         ELSE /\ Reject([from |-> "request", msg |-> msg])
              /\ UNCHANGED <<promptRet, learnMores>>
    /\ UNCHANGED <<url, nextLink, suppressErrorDisplay, properties, picksCache,
                   gitHubRepos, shownPicks, orgQuickPick, reqRet, connectErr,
                   requests, reqInCall, ghLog>>
    /\ reqErr' = [from |-> "request", msg |-> msg]
    /\ UNCHANGED <<syncErr, promptInput>>
    /\ GhFrame

\* lines 123-129, 130-138: a response arrives but its body is not JSON;
\* the SyntaxError's message has none of the markers.
ResponseNotJson ==
    /\ ghPc = "awaitResponse"
    /\ nextLink' = NextLinkAfter(url, nextLink)
    /\ Reject([from |-> "JSON.parse", msg |-> {}])
    /\ UNCHANGED <<url, suppressErrorDisplay, properties, picksCache, gitHubRepos,
                   shownPicks, orgQuickPick, reqRet, promptRet, connectErr, requests,
                   reqInCall, ghLog, learnMores>>
    /\ GhHistFrame
    /\ GhFrame

\* line 43 returns; lines 44-45 up to the request
ResponseUser ==
    /\ ghPc = "awaitResponse" /\ reqRet = "user"
    /\ nextLink' = NextLinkAfter(url, nextLink)
    /\ url' = OrgsUrl(1)
    /\ CallGetJsonRequest("orgs")
    /\ UNCHANGED <<suppressErrorDisplay, properties, picksCache, gitHubRepos, shownPicks,
                   orgQuickPick, promptRet, ghResult, ghError, connectErr, requests,
                   ghLog, learnMores>>
    /\ GhHistFrame
    /\ GhFrame

\* line 45 returns; lines 46-47 show the organization quick pick
ResponseOrgs ==
    /\ ghPc = "awaitResponse" /\ reqRet = "orgs"
    /\ nextLink' = NextLinkAfter(url, nextLink)
    /\ ghPc' = "orgPick"
    /\ UNCHANGED <<url, suppressErrorDisplay, properties, picksCache, gitHubRepos,
                   shownPicks, orgQuickPick, reqRet, promptRet, ghResult, ghError,
                   connectErr, requests, reqInCall, ghLog, learnMores>>
    /\ GhHistFrame
    /\ GhFrame

\* line 46: the organization picks, built from the two responses
orgQuickPicks ==
    createQuickPickFromJsons(Body(UserUrl), "login")
        \o createQuickPickFromJsons(Body(OrgsUrl(1)), "login")

\* lines 47-53: the user picks organization i; the first call of
\* getGitHubReposQuickPicks starts (cache empty, gitHubRepos empty)
OrgPick(i) ==
    /\ ghPc = "orgPick"
    /\ i \in 1..Len(orgQuickPicks)
    /\ orgQuickPick' = orgQuickPicks[i].data
    /\ url' = ReposUrl(orgQuickPicks[i].data.org, 1)
    /\ picksCache' = <<>>
    /\ gitHubRepos' = <<>>
    /\ ghLog' = Append(ghLog, "showQuickPick")
    /\ CallGetJsonRequest("repos")
    /\ UNCHANGED <<nextLink, suppressErrorDisplay, properties, shownPicks, promptRet,
                   ghResult, ghError, connectErr, requests, learnMores>>
    /\ GhHistFrame
    /\ GhFrame

\* lines 190-208: a page of repositories arrives; timedOut is the outcome of
\* startTime + timeoutMs > Date.now() being false
ResponseRepos(timedOut) ==
    /\ ghPc = "awaitResponse" /\ reqRet = "repos"
    /\ LET link == NextLinkAfter(url, nextLink)
           repos == gitHubRepos \o Body(url)
       IN  /\ nextLink' = link
           /\ url' = IF link # NoUrl THEN link ELSE url
           /\ IF link # NoUrl /\ ~timedOut
                THEN /\ gitHubRepos' = repos
                     /\ CallGetJsonRequest("repos")
                     /\ UNCHANGED <<picksCache, shownPicks>>
                ELSE /\ picksCache' = CachedPicks(picksCache, repos)
                     /\ shownPicks' = ReturnedPicks(CachedPicks(picksCache, repos), link)
                     /\ ghPc' = "repoPick"
                     /\ UNCHANGED <<gitHubRepos, reqRet, reqInCall>>
    /\ UNCHANGED <<suppressErrorDisplay, properties, orgQuickPick, promptRet, ghResult,
                   ghError, connectErr, requests, ghLog, learnMores>>
    /\ GhHistFrame
    /\ GhFrame

\* lines 53-57: the user picks entry i of the repository quick pick; 'Load
\* More' (data undefined) runs getGitHubReposQuickPicks again, a repository
\* leads to the branches request
RepoPick(i) ==
    /\ ghPc = "repoPick"
    /\ i \in 1..Len(shownPicks)
    /\ ghLog' = Append(ghLog, "showQuickPick")
    /\ IF shownPicks[i].data = Undefined
         THEN /\ gitHubRepos' = <<>>
              /\ CallGetJsonRequest("repos")
              /\ UNCHANGED url
         ELSE /\ url' = BranchesUrl(shownPicks[i].data)
              /\ CallGetJsonRequest("branches")
              /\ UNCHANGED gitHubRepos
    /\ UNCHANGED <<nextLink, suppressErrorDisplay, properties, picksCache, shownPicks,
                   orgQuickPick, promptRet, ghResult, ghError, connectErr, requests,
                   learnMores>>
    /\ GhHistFrame
    /\ GhFrame

\* line 57 returns; lines 58-59 show the branch quick pick
ResponseBranches ==
    /\ ghPc = "awaitResponse" /\ reqRet = "branches"
    /\ nextLink' = NextLinkAfter(url, nextLink)
    /\ ghPc' = "branchPick"
    /\ UNCHANGED <<url, suppressErrorDisplay, properties, picksCache, gitHubRepos,
                   shownPicks, orgQuickPick, reqRet, promptRet, ghResult, ghError,
                   connectErr, requests, reqInCall, ghLog, learnMores>>
    /\ GhHistFrame
    /\ GhFrame

\* lines 59-76: a branch is picked; verifyNoRunFromPackageSetting starts
BranchPick ==
    /\ ghPc = "branchPick"
    /\ ghLog' = Append(ghLog, "showQuickPick")
    /\ ghPc' = "verifyNoRunFromPackageSetting"
    /\ UNCHANGED <<url, nextLink, suppressErrorDisplay, properties, picksCache,
                   gitHubRepos, shownPicks, orgQuickPick, reqRet, promptRet, ghResult,
                   ghError, connectErr, requests, reqInCall, learnMores>>
    /\ GhHistFrame
    /\ GhFrame

\* ext.ui.showQuickPick throws when the user cancels a quick pick
QuickPickCancelled ==
    /\ ghPc \in {"orgPick", "repoPick", "branchPick"}
    /\ ghLog' = Append(ghLog, "showQuickPick")
    /\ Reject(UserCancelledError)
    /\ UNCHANGED <<url, nextLink, suppressErrorDisplay, properties, picksCache,
                   gitHubRepos, shownPicks, orgQuickPick, reqRet, promptRet, connectErr,
                   requests, reqInCall, learnMores>>
    /\ GhHistFrame
    /\ GhFrame

\* line 76 returns; line 77 calls client.updateSourceControl
VerifyOk ==
    /\ ghPc = "verifyNoRunFromPackageSetting"
    /\ ghPc' = "updateSourceControl"
    /\ ghLog' = Append(ghLog, "updateSourceControl")
    /\ UNCHANGED <<url, nextLink, suppressErrorDisplay, properties, picksCache,
                   gitHubRepos, shownPicks, orgQuickPick, reqRet, promptRet, ghResult,
                   ghError, connectErr, requests, reqInCall, learnMores>>
    /\ GhHistFrame
    /\ GhFrame

\* lines 81-85: the connect step failed with err; client.syncRepository is called
CatchConnect(err) ==
    /\ connectErr' = err
    /\ ghPc' = "syncRepository"
    /\ ghLog' = Append(ghLog, "syncRepository")

\* line 76 throws
VerifyFails(msg) ==
    /\ ghPc = "verifyNoRunFromPackageSetting"
    /\ CatchConnect([from |-> "verifyNoRunFromPackageSetting", msg |-> msg])
    /\ UNCHANGED <<url, nextLink, suppressErrorDisplay, properties, picksCache,
                   gitHubRepos, shownPicks, orgQuickPick, reqRet, promptRet, ghResult,
                   ghError, requests, reqInCall, learnMores>>
    /\ GhHistFrame
    /\ GhFrame

\* lines 77-80, 94: updateSourceControl succeeds and connectToGitHub returns
UpdateOk ==
    /\ ghPc = "updateSourceControl"
    /\ ghPc' = "done"
    /\ ghResult' = "resolved"
    /\ ghLog' = Append(ghLog, "showInformationMessage")
    /\ UNCHANGED <<url, nextLink, suppressErrorDisplay, properties, picksCache,
                   gitHubRepos, shownPicks, orgQuickPick, reqRet, promptRet, ghError,
                   connectErr, requests, reqInCall, learnMores>>
    /\ GhHistFrame
    /\ GhFrame

\* line 77 throws
UpdateFails(msg) ==
    /\ ghPc = "updateSourceControl"
    /\ CatchConnect([from |-> "updateSourceControl", msg |-> msg])
    /\ UNCHANGED <<url, nextLink, suppressErrorDisplay, properties, picksCache,
                   gitHubRepos, shownPicks, orgQuickPick, reqRet, promptRet, ghResult,
                   ghError, requests, reqInCall, learnMores>>
    /\ GhHistFrame
    /\ GhFrame

\* Mutation of SyncOk: after a successful resync the catch block rethrows err.
SyncOk_RethrowsConnectError ==
    /\ ghPc = "syncRepository"
    /\ Reject(connectErr)
    /\ UNCHANGED <<url, nextLink, suppressErrorDisplay, properties, picksCache,
                   gitHubRepos, shownPicks, orgQuickPick, reqRet, promptRet,
                   connectErr, requests, reqInCall, ghLog, learnMores>>
    /\ GhHistFrame
    /\ GhFrame

\* line 85 returns: the catch block ends and connectToGitHub returns
SyncOk ==
    /\ ghPc = "syncRepository"
    /\ ghPc' = "done"
    /\ ghResult' = "resolved"
    /\ UNCHANGED <<url, nextLink, suppressErrorDisplay, properties, picksCache,
                   gitHubRepos, shownPicks, orgQuickPick, reqRet, promptRet, ghError,
                   connectErr, requests, reqInCall, ghLog, learnMores>>
    /\ GhHistFrame
    /\ GhFrame

\* Mutation of SyncFails: every syncRepository error is swallowed.
SyncFails_SwallowsAll(msg) ==
    /\ ghPc = "syncRepository"
    /\ ghPc' = "done"
    /\ ghResult' = "resolved"
    /\ UNCHANGED ghError
    /\ UNCHANGED <<url, nextLink, suppressErrorDisplay, properties, picksCache,
                   gitHubRepos, shownPicks, orgQuickPick, reqRet, promptRet,
                   connectErr, requests, reqInCall, ghLog, learnMores>>
    /\ syncErr' = [from |-> "syncRepository", msg |-> msg]
    /\ UNCHANGED <<reqErr, promptInput>>
    /\ GhFrame

\* lines 86-92: syncRepository throws an error whose parsed message is msg
SyncFails(msg) ==
    /\ ghPc = "syncRepository"
    /\ IF "\"statusCode\":200" \notin msg
         THEN Reject([from |-> "syncRepository", msg |-> msg])
         ELSE /\ ghPc' = "done"
              /\ ghResult' = "resolved"
              /\ UNCHANGED ghError
    /\ UNCHANGED <<url, nextLink, suppressErrorDisplay, properties, picksCache,
                   gitHubRepos, shownPicks, orgQuickPick, reqRet, promptRet,
                   connectErr, requests, reqInCall, ghLog, learnMores>>
    /\ syncErr' = [from |-> "syncRepository", msg |-> msg]
    /\ UNCHANGED <<reqErr, promptInput>>
    /\ GhFrame

GhNext ==
    \/ ListSourceControlsToken
    \/ ListSourceControlsNoToken
    \/ \E msg \in Messages : ListSourceControlsFails(msg)
    \/ PromptLearnMore
    \/ PromptGoToPortal
    \/ PromptDismissed
    \/ IssueRequest
    \/ \E msg \in Messages : ResponseFails(msg)
    \/ ResponseNotJson
    \/ ResponseUser
    \/ ResponseOrgs
    \/ \E i \in 1..(1 + MaxOrgPages) : OrgPick(i)
    \/ \E timedOut \in BOOLEAN : ResponseRepos(timedOut)
    \/ \E i \in 1..(1 + MaxRepoPages * ReposPerPage) : RepoPick(i)
    \/ ResponseBranches
    \/ BranchPick
    \/ QuickPickCancelled
    \/ VerifyOk
    \/ \E msg \in Messages : VerifyFails(msg)
    \/ UpdateOk
    \/ \E msg \in Messages : UpdateFails(msg)
    \/ SyncOk
    \/ \E msg \in Messages : SyncFails(msg)


\* ------------------------------------------------------------------------
\* createAppService
\* ------------------------------------------------------------------------
AppKinds == {"app", "functionapp"}

\* createOptions as passed in; an absent createOptions is the all-undefined one.
CreateOptionsSet ==
    [resourceGroup : {"undefined", "myRG"},
     advancedCreation : BOOLEAN,
     os : {"undefined", "linux", "windows"}]

\* lines 35-49: the wizard context createAppService starts from
InitialWizardContext(kind, opts) ==
    [newSiteKind |-> kind,
     newSiteOS |-> opts.os,
     newResourceGroupName |-> opts.resourceGroup,
     newSiteName |-> "undefined",
     location |-> "undefined",
     plan |-> "undefined",
     newPlanName |-> "undefined",
     newPlanSku |-> "undefined",
     site |-> "undefined"]

\* lines 51-95: promptSteps as passed to the AzureWizard constructor
BuildPromptSteps(kind, opts) ==
    <<"SiteNameStep">> \o
    (CASE kind = "functionapp" ->
            <<"ResourceGroupListStep", "SiteOSStep", "SiteRuntimeStep",
              "StorageAccountListStep", "LocationListStep">>
       [] kind = "app" /\ opts.advancedCreation ->
            <<"ResourceGroupListStep", "SiteOSStep", "SiteRuntimeStep",
              "AppServicePlanListStep", "LocationListStep">>
       [] kind = "app" /\ ~opts.advancedCreation ->
            <<"LocationListStep", "SiteOSStep", "SiteRuntimeStep">>
       [] OTHER -> <<>>)

\* Mutation of BuildExecuteSteps: SiteCreateStep is pushed before the switch,
\* ahead of the basic web app's create steps.
BuildExecuteSteps_SiteCreateEarly(kind, opts) ==
    (IF opts.resourceGroup # "undefined" THEN <<"ResourceGroupCreateStep">> ELSE <<>>)
    \o <<"SiteCreateStep">>
    \o (IF kind = "app" /\ ~opts.advancedCreation
          THEN <<"ResourceGroupCreateStep", "AppServicePlanCreateStep">> ELSE <<>>)

\* lines 45-49, 91-92, 96: executeSteps as passed to the AzureWizard constructor
BuildExecuteSteps(kind, opts) ==
    (IF opts.resourceGroup # "undefined" THEN <<"ResourceGroupCreateStep">> ELSE <<>>)
    \o (IF kind = "app" /\ ~opts.advancedCreation
          THEN <<"ResourceGroupCreateStep", "AppServicePlanCreateStep">> ELSE <<>>)
    \o <<"SiteCreateStep">>

\* lines 107-115: the names the basic web app creation derives after prompting
AfterPromptContext(ctx, opts) ==
    IF ctx.newSiteKind = "app" /\ ~opts.advancedCreation
      THEN [ctx EXCEPT
              !.newResourceGroupName = "appsvc_rg",
              !.newPlanName = "appsvc_asp",
              !.newPlanSku = IF ctx.newSiteOS = "windows" THEN "F1" ELSE "B1"]
      ELSE ctx

CaInit ==
    /\ caPc = "start"
    /\ appKind \in AppKinds
    /\ createOptions \in CreateOptionsSet
    /\ hasShowCreating \in BOOLEAN
    /\ promptSteps = <<>>
    /\ executeSteps = <<>>
    /\ wizardContext = <<>>
    /\ promptIdx = 0
    /\ executeIdx = 0
    /\ caLog = <<>>

CaFrame == UNCHANGED <<treeVars, ghVars, plVars, appKind, createOptions, hasShowCreating>>

CaEvent(ev, arg) == [ev |-> ev, arg |-> arg]

\* lines 31-97: the steps and the context are built. For the basic web app,
\* setWizardContextDefaults may fill in a default OS (defaultOS).
CreateWizard(defaultOS) ==
    /\ caPc = "start"
    /\ LET ctx == InitialWizardContext(appKind, createOptions)
           callsDefaults == appKind = "app" /\ ~createOptions.advancedCreation
       IN  /\ defaultOS # "undefined" => callsDefaults /\ ctx.newSiteOS = "undefined"
           /\ wizardContext' = IF defaultOS # "undefined"
                                 THEN [ctx EXCEPT !.newSiteOS = defaultOS] ELSE ctx
    /\ promptSteps' = BuildPromptSteps(appKind, createOptions)
    /\ executeSteps' = BuildExecuteSteps(appKind, createOptions)
    /\ promptIdx' = 1
    /\ executeIdx' = 0
    /\ caPc' = "prompt"
    /\ UNCHANGED caLog
    /\ CaFrame

\* line 87: setWizardContextDefaults throws; createAppService rejects
SetWizardContextDefaultsFails ==
    /\ caPc = "start"
    /\ appKind = "app" /\ ~createOptions.advancedCreation
    /\ caPc' = "rejected"
    /\ UNCHANGED <<promptSteps, executeSteps, wizardContext, promptIdx, executeIdx, caLog>>
    /\ CaFrame

\* What the user can answer to a prompt step.
StepChoices(step) ==
    CASE step = "SiteNameStep" -> {"site1", "site2"}
      [] step = "SiteOSStep" -> {"linux", "windows"}
      [] step = "AppServicePlanListStep" -> {"undefined", "plan1"}
      [] step = "ResourceGroupListStep" -> {"pickedRG"}
      [] step = "LocationListStep" -> {"westus"}
      [] OTHER -> {"ok"}

\* AppServicePlanListStep.shouldPrompt (part_000:207-209)
PlanShouldPrompt(ctx) == ctx.plan = "undefined" /\ ctx.newPlanName = "undefined"

\* Server: the subscription's App Service plans, as client.appServicePlans
\* lists them.
ServerPlans ==
    <<[name |-> "plan1", resourceGroup |-> "RG1", kind |-> "app,linux", location |-> "eastus"],
      [name |-> "Plan2", resourceGroup |-> "rg2", kind |-> "app", location |-> "westeurope"]>>

\* plan.location of a listed plan
PlanLocation(plan) ==
    (CHOOSE p \in {ServerPlans[i] : i \in 1..Len(ServerPlans)} : p.name = plan).location

\* AppServicePlanListStep.prompt, line 189: the pick's data (undefined for
\* 'Create new') is stored in wizardContext.plan
PlanPick(ctx, choice) == [ctx EXCEPT !.plan = choice]

\* LocationListStep.setLocation(wizardContext, location)
SetLocation(ctx, location) == [ctx EXCEPT !.location = location]

\* AppServicePlanListStep.prompt (part_000:186-194): the picked plan is stored
\* and, for an existing plan, its location becomes the location
PlanPrompt(ctx, choice) ==
    IF choice # "undefined"
      THEN SetLocation(PlanPick(ctx, choice), PlanLocation(choice))
      ELSE PlanPick(ctx, choice)

\* The context after a prompt step has prompted with the user's answer; a step
\* keeps a value that is already set.
StepPrompt(step, ctx, choice) ==
    CASE step = "SiteNameStep" -> [ctx EXCEPT !.newSiteName = choice]
      [] step = "SiteOSStep" ->
            IF ctx.newSiteOS = "undefined" THEN [ctx EXCEPT !.newSiteOS = choice] ELSE ctx
      [] step = "ResourceGroupListStep" ->
            IF ctx.newResourceGroupName = "undefined"
              THEN [ctx EXCEPT !.newResourceGroupName = choice] ELSE ctx
      [] step = "LocationListStep" ->
            IF ctx.location = "undefined" THEN [ctx EXCEPT !.location = choice] ELSE ctx
      [] step = "AppServicePlanListStep" ->
            IF PlanShouldPrompt(ctx) THEN PlanPrompt(ctx, choice) ELSE ctx
      [] OTHER -> ctx

\* wizard.prompt: the next prompt step runs
WizardPromptStep(choice) ==
    /\ caPc = "prompt"
    /\ promptIdx \in 1..Len(promptSteps)
    /\ choice \in StepChoices(promptSteps[promptIdx])
    /\ wizardContext' = StepPrompt(promptSteps[promptIdx], wizardContext, choice)
    /\ caLog' = Append(caLog, CaEvent("prompt", promptSteps[promptIdx]))
    /\ promptIdx' = promptIdx + 1
    /\ UNCHANGED <<caPc, promptSteps, executeSteps, executeIdx>>
    /\ CaFrame

\* wizard.prompt: a prompt step throws (an error, or the user cancels);
\* line 103 rethrows and createAppService rejects
WizardPromptFails ==
    /\ caPc = "prompt"
    /\ promptIdx \in 1..Len(promptSteps)
    /\ caPc' = "rejected"
    /\ UNCHANGED <<promptSteps, executeSteps, wizardContext, promptIdx, executeIdx, caLog>>
    /\ CaFrame

\* lines 103-119: wizard.prompt returned; showCreatingTreeItem, the basic
\* names, then wizard.execute starts inside withProgress
AfterWizardPrompt ==
    /\ caPc = "prompt"
    /\ promptIdx = Len(promptSteps) + 1
    /\ caLog' = IF hasShowCreating
                  THEN Append(caLog, CaEvent("showCreatingTreeItem", wizardContext.newSiteName))
                  ELSE caLog
    /\ wizardContext' = AfterPromptContext(wizardContext, createOptions)
    /\ executeIdx' = 1
    /\ caPc' = "execute"
    /\ UNCHANGED <<promptSteps, executeSteps, promptIdx>>
    /\ CaFrame

\* The context after an execute step has run.
StepExecute(step, ctx) ==
    IF step = "SiteCreateStep" THEN [ctx EXCEPT !.site = ctx.newSiteName] ELSE ctx

\* wizard.execute: the next execute step runs
WizardExecuteStep ==
    /\ caPc = "execute"
    /\ executeIdx \in 1..Len(executeSteps)
    /\ wizardContext' = StepExecute(executeSteps[executeIdx], wizardContext)
    /\ caLog' = Append(caLog, CaEvent("execute", executeSteps[executeIdx]))
    /\ executeIdx' = executeIdx + 1
    /\ UNCHANGED <<caPc, promptSteps, executeSteps, promptIdx>>
    /\ CaFrame

\* wizard.execute: an execute step throws; createAppService rejects
WizardExecuteFails ==
    /\ caPc = "execute"
    /\ executeIdx \in 1..Len(executeSteps)
    /\ caPc' = "rejected"
    /\ UNCHANGED <<promptSteps, executeSteps, wizardContext, promptIdx, executeIdx, caLog>>
    /\ CaFrame

\* lines 119-122: wizard.execute returned; the site is returned
ReturnSite ==
    /\ caPc = "execute"
    /\ executeIdx = Len(executeSteps) + 1
    /\ caPc' = "resolved"
    /\ UNCHANGED <<promptSteps, executeSteps, wizardContext, promptIdx, executeIdx, caLog>>
    /\ CaFrame

CaNext ==
    \/ \E defaultOS \in {"undefined", "linux", "windows"} : CreateWizard(defaultOS)
    \/ SetWizardContextDefaultsFails
    \/ \E choice \in {"site1", "site2", "linux", "windows", "undefined", "plan1",
                      "pickedRG", "westus", "ok"} : WizardPromptStep(choice)
    \/ WizardPromptFails
    \/ AfterWizardPrompt
    \/ WizardExecuteStep
    \/ WizardExecuteFails
    \/ ReturnSite


\* ------------------------------------------------------------------------
\* AppServicePlanListStep (src/unnamed/part_000:168-236)
\* ------------------------------------------------------------------------
\* Callers of getPlans: 0 is the quick-pick builder of prompt, the others
\* are isNameAvailable calls.
NameCallers == 1..NumNameCallers
PlanCallers == {0} \cup NameCallers

\* Arguments isNameAvailable is called with.
PlanNameArgs == {"plan1", "PLAN2"}
ResourceGroupArgs == {"rg1", "RG2"}

\* String.prototype.toLowerCase on the strings of the model.
toLowerCase(str) ==
    CASE str \in {"Plan2", "PLAN2"} -> "plan2"
      [] str \in {"RG1"} -> "rg1"
      [] str \in {"RG2"} -> "rg2"
      [] OTHER -> str

\* plan.kind.toLowerCase().includes('linux')
IsPlanLinux(plan) == plan.kind \in {"linux", "app,linux"}

NoSubWizard == [defined |-> FALSE, promptSteps |-> <<>>, executeSteps |-> <<>>]

\* Mutation of getSubWizard: the condition of shouldPrompt's second half is
\* used in place of the plan test.
getSubWizard_TestsNewPlanName(ctx) ==
    IF ctx.newPlanName = "undefined"
      THEN [defined |-> TRUE,
            promptSteps |-> <<"AppServicePlanNameStep", "AppServicePlanSkuStep",
                              "ResourceGroupListStep", "LocationListStep">>,
            executeSteps |-> <<"AppServicePlanCreateStep">>]
      ELSE NoSubWizard

\* getSubWizard (lines 196-205)
getSubWizard(ctx) ==
    IF ctx.plan = "undefined"
      THEN [defined |-> TRUE,
            promptSteps |-> <<"AppServicePlanNameStep", "AppServicePlanSkuStep",
                              "ResourceGroupListStep", "LocationListStep">>,
            executeSteps |-> <<"AppServicePlanCreateStep">>]
      ELSE NoSubWizard

\* getQuickPicks (lines 211-235): 'Create new' first, then the plans whose OS
\* is the new site's
RECURSIVE PlanPicks(_, _)
PlanPicks(plans, ctx) ==
    IF plans = <<>> THEN <<>>
    ELSE LET plan == Head(plans)
             rest == PlanPicks(Tail(plans), ctx)
         IN  IF (ctx.newSiteOS = "linux") = IsPlanLinux(plan)
               THEN <<[label |-> plan.name, data |-> plan.name]>> \o rest
               ELSE rest

getQuickPicks(plans, ctx) ==
    <<[label |-> "$(plus) Create new App Service plan", data |-> "undefined"]>>
        \o PlanPicks(plans, ctx)

\* isNameAvailable (lines 178-184) on the listed plans
isNameAvailable(plans, name, resourceGroupName) ==
    ~\E i \in 1..Len(plans) :
        /\ toLowerCase(plans[i].resourceGroup) = toLowerCase(resourceGroupName)
        /\ toLowerCase(plans[i].name) = toLowerCase(name)

NothingGot == [task |-> 0, outcome |-> "none", available |-> FALSE]

PlCtxSet ==
    [plan : {"undefined", "plan1"},
     newPlanName : {"undefined", "newPlan"},
     location : {"undefined", "westus"},
     newSiteOS : {"linux", "windows"}]

PlStart(ctx) ==
    /\ plPc = "start"
    /\ plCtx = ctx
    /\ plCtx0 = ctx
    /\ plansTask = 0
    /\ tasks = <<>>
    /\ nameCall = [c \in NameCallers |-> [pc |-> "idle", name |-> "", rg |-> "", seen |-> "none"]]
    /\ awaiting = [c \in PlanCallers |-> 0]
    /\ got = [c \in PlanCallers |-> NothingGot]
    /\ plPicks = <<>>
    /\ prompted = FALSE
    /\ subWizard = NoSubWizard

PlInit == \E ctx \in PlCtxSet : PlStart(ctx)

PlIdle ==
    PlStart([plan |-> "undefined", newPlanName |-> "undefined",
             location |-> "undefined", newSiteOS |-> "linux"])

PlFrame == UNCHANGED <<treeVars, ghVars, caVars, plCtx0>>

\* The state of wizardContext.plansTask as a caller finds it.
TaskSeen == IF plansTask = 0 THEN "undefined" ELSE tasks[plansTask]

\* Mutation of getPlans: the task is only reused once it has completed, so a
\* call made while a request is pending starts another one.
getPlans_StartsWhilePending(c) ==
    /\ IF plansTask = 0 \/ TaskSeen = "pending"
         THEN /\ tasks' = Append(tasks, "pending")
              /\ plansTask' = Len(tasks) + 1
         ELSE UNCHANGED <<tasks, plansTask>>
    /\ awaiting' = [awaiting EXCEPT ![c] = plansTask']

\* getPlans (lines 169-176) up to its await: the request is started if
\* plansTask is undefined, and the caller awaits plansTask
getPlans(c) ==
    /\ IF plansTask = 0
         THEN /\ tasks' = Append(tasks, "pending")
              /\ plansTask' = Len(tasks) + 1
         ELSE UNCHANGED <<tasks, plansTask>>
    /\ awaiting' = [awaiting EXCEPT ![c] = plansTask']

\* The wizard finds shouldPrompt false and goes on to getSubWizard
PlStepSkipped ==
    /\ plPc = "start"
    /\ ~PlanShouldPrompt(plCtx)
    /\ plPc' = "getSubWizard"
    /\ UNCHANGED <<plCtx, plansTask, tasks, nameCall, awaiting, got, plPicks, prompted,
                   subWizard>>
    /\ PlFrame

\* prompt (lines 186-189): showQuickPick is given getQuickPicks(...), which
\* runs up to the await in getPlans
PlPromptCalled ==
    /\ plPc = "start"
    /\ PlanShouldPrompt(plCtx)
    /\ prompted' = TRUE
    /\ getPlans(0)
    /\ plPc' = "awaitPlans"
    /\ UNCHANGED <<plCtx, nameCall, got, plPicks, subWizard>>
    /\ PlFrame

\* isNameAvailable(wizardContext, name, resourceGroupName) is called
IsNameAvailableCalled(c, name, rg) ==
    /\ nameCall[c].pc = "idle"
    /\ nameCall' = [nameCall EXCEPT
                      ![c] = [pc |-> "awaiting", name |-> name, rg |-> rg, seen |-> TaskSeen]]
    /\ getPlans(c)
    /\ UNCHANGED <<plPc, plCtx, got, plPicks, prompted, subWizard>>
    /\ PlFrame

\* uiUtils.listAll(...) resolves with the plans
PlansTaskResolves(t) ==
    /\ t \in 1..Len(tasks) /\ tasks[t] = "pending"
    /\ tasks' = [tasks EXCEPT ![t] = "resolved"]
    /\ UNCHANGED <<plPc, plCtx, plansTask, nameCall, awaiting, got, plPicks, prompted,
                   subWizard>>
    /\ PlFrame

\* uiUtils.listAll(...) rejects
PlansTaskRejects(t) ==
    /\ t \in 1..Len(tasks) /\ tasks[t] = "pending"
    /\ tasks' = [tasks EXCEPT ![t] = "rejected"]
    /\ UNCHANGED <<plPc, plCtx, plansTask, nameCall, awaiting, got, plPicks, prompted,
                   subWizard>>
    /\ PlFrame

\* await wizardContext.plansTask completes in isNameAvailable (lines 179-183)
IsNameAvailableReturns(c) ==
    /\ nameCall[c].pc = "awaiting"
    /\ tasks[awaiting[c]] # "pending"
    /\ nameCall' = [nameCall EXCEPT ![c].pc = "done"]
    /\ got' = [got EXCEPT ![c] =
                 [task |-> awaiting[c], outcome |-> tasks[awaiting[c]],
                  available |-> /\ tasks[awaiting[c]] = "resolved"
                                /\ isNameAvailable(ServerPlans, nameCall[c].name,
                                                   nameCall[c].rg)]]
    /\ UNCHANGED <<plPc, plCtx, plansTask, tasks, awaiting, plPicks, prompted, subWizard>>
    /\ PlFrame

\* await wizardContext.plansTask completes in getQuickPicks (lines 218-234);
\* a rejection makes showQuickPick, and so prompt, throw
GetQuickPicksReturns ==
    /\ plPc = "awaitPlans"
    /\ tasks[awaiting[0]] # "pending"
    /\ got' = [got EXCEPT ![0] =
                 [task |-> awaiting[0], outcome |-> tasks[awaiting[0]], available |-> FALSE]]
    /\ IF tasks[awaiting[0]] = "resolved"
         THEN /\ plPicks' = getQuickPicks(ServerPlans, plCtx)
              /\ plPc' = "picking"
         ELSE /\ plPc' = "failed"
              /\ UNCHANGED plPicks
    /\ UNCHANGED <<plCtx, plansTask, tasks, nameCall, awaiting, prompted, subWizard>>
    /\ PlFrame

\* line 189-192: the user picks entry i; its data becomes wizardContext.plan,
\* and for an existing plan LocationListStep.setLocation is awaited
UserPicksPlan(i) ==
    /\ plPc = "picking"
    /\ i \in 1..Len(plPicks)
    /\ plCtx' = PlanPick(plCtx, plPicks[i].data)
    /\ plPc' = IF plPicks[i].data # "undefined" THEN "setLocation" ELSE "getSubWizard"
    /\ UNCHANGED <<plansTask, tasks, nameCall, awaiting, got, plPicks, prompted, subWizard>>
    /\ PlFrame

\* line 189: the user cancels the quick pick; prompt throws
UserCancelsPlanPick ==
    /\ plPc = "picking"
    /\ plPc' = "failed"
    /\ UNCHANGED <<plCtx, plansTask, tasks, nameCall, awaiting, got, plPicks, prompted,
                   subWizard>>
    /\ PlFrame

\* line 192 returns: the location is the plan's; prompt returns
SetLocationOk ==
    /\ plPc = "setLocation"
    /\ plCtx' = SetLocation(plCtx, PlanLocation(plCtx.plan))
    /\ plPc' = "getSubWizard"
    /\ UNCHANGED <<plansTask, tasks, nameCall, awaiting, got, plPicks, prompted, subWizard>>
    /\ PlFrame

\* line 192 throws; prompt throws
SetLocationFails ==
    /\ plPc = "setLocation"
    /\ plPc' = "failed"
    /\ UNCHANGED <<plCtx, plansTask, tasks, nameCall, awaiting, got, plPicks, prompted,
                   subWizard>>
    /\ PlFrame

\* The wizard calls getSubWizard after the step
GetSubWizardCalled ==
    /\ plPc = "getSubWizard"
    /\ subWizard' = getSubWizard(plCtx)
    /\ plPc' = "done"
    /\ UNCHANGED <<plCtx, plansTask, tasks, nameCall, awaiting, got, plPicks, prompted>>
    /\ PlFrame

PlNext ==
    \/ PlStepSkipped
    \/ PlPromptCalled
    \/ \E c \in NameCallers : \E name \in PlanNameArgs : \E rg \in ResourceGroupArgs :
          IsNameAvailableCalled(c, name, rg)
    \/ \E t \in 1..(1 + NumNameCallers) : PlansTaskResolves(t)
    \/ \E t \in 1..(1 + NumNameCallers) : PlansTaskRejects(t)
    \/ \E c \in NameCallers : IsNameAvailableReturns(c)
    \/ GetQuickPicksReturns
    \/ \E i \in 1..3 : UserPicksPlan(i)
    \/ UserCancelsPlanPick
    \/ SetLocationOk
    \/ SetLocationFails
    \/ GetSubWizardCalled

\* ------------------------------------------------------------------------
\* Specifications
\* ------------------------------------------------------------------------
CaIdle ==
    /\ caPc = "idle" /\ appKind = "app" /\ createOptions = <<>> /\ hasShowCreating = FALSE
    /\ promptSteps = <<>> /\ executeSteps = <<>> /\ wizardContext = <<>>
    /\ promptIdx = 0 /\ executeIdx = 0 /\ caLog = <<>>

InitTree == TreeInit /\ GhStart(1, 1) /\ CaIdle /\ PlIdle

SpecTree == InitTree /\ [][TreeNext]_vars

InitGitHub == TreeInit /\ GhInit /\ CaIdle /\ PlIdle

SpecGitHub == InitGitHub /\ [][GhNext]_vars

\* The user of showGitHubAuthPrompt eventually answers the dialog with
\* something other than 'Learn More'.
SpecGitHubFair == SpecGitHub /\ WF_vars(PromptGoToPortal \/ PromptDismissed)

InitCreate == TreeInit /\ GhStart(1, 1) /\ CaInit /\ PlIdle

SpecCreate == InitCreate /\ [][CaNext]_vars

InitPlans == TreeInit /\ GhStart(1, 1) /\ CaIdle /\ PlInit

SpecPlans == InitPlans /\ [][PlNext]_vars

\* ------------------------------------------------------------------------
\* Properties of createTreeItemsWithErrorHandling (under SpecTree)
\* ------------------------------------------------------------------------
\* Positions in the returned list of the nodes made for source s (0: the
\* aggregate node, made for no source).
NodesOf(s) == {k \in 1..Len(treeItems) : treeItems[k].src = s}

AggregateNodes ==
    {k \in 1..Len(treeItems) :
        treeItems[k].kind = "invalid" /\ treeItems[k].label = cantShowItems
            /\ treeItems[k].src = 0}

\* C1: in the returned list, every source whose createTreeItem failed and
\* whose getLabelOnError gave a non-empty label has exactly one node, an
\* invalid node with that label whose loadMoreChildrenImpl throws that
\* source's own error, and no real node - whatever the interleaving.
C1_PlaceholderForLabelledFailure ==
    treePc = "returned" =>
        \A s \in Sources :
            (created[s] = "throw" /\ labelRes[s] \in {"L1", "L2"}) =>
                /\ Cardinality(NodesOf(s)) = 1
                /\ \A k \in NodesOf(s) :
                    /\ treeItems[k].kind = "invalid"
                    /\ treeItems[k].label = labelRes[s]
                    /\ loadMoreChildrenImpl(treeItems[k]) = thrown[s]

\* Two sources fail with different errors and get labels, the later-listed
\* one finishing first, next to a source that produced a real item.
C1_Witness ==
    /\ treePc = "returned"
    /\ \E s, t, r \in Sources :
        /\ created[s] = "throw" /\ thrown[s] = "E1" /\ labelRes[s] = "L1"
        /\ created[t] = "throw" /\ thrown[t] = "E2" /\ labelRes[t] = "L1"
        /\ created[r] = "item"
        /\ s < t
        /\ \E k, l \in 1..Len(treeItems) :
            k < l /\ treeItems[k].src = t /\ treeItems[l].src = s

\* C2: the returned list has at most one aggregate node, it is the last
\* element, and it carries the error of the first source that was found to
\* have no label (a later unlabelled error never takes its place).
C2_FirstUnlabelledErrorOnly ==
    treePc = "returned" =>
        /\ Cardinality(AggregateNodes) <= 1
        /\ \A k \in AggregateNodes :
            /\ k = Len(treeItems)
            /\ unlabelledOrder # <<>>
            /\ treeItems[k].error = thrown[Head(unlabelledOrder)]

\* C3: whenever some source failed and no label could be obtained for it,
\* the returned list contains the aggregate generic error node.
C3_GenericNodeIfAnyUnknown ==
    treePc = "returned" =>
        (unlabelledOrder # <<>> => AggregateNodes # {})

\* ------------------------------------------------------------------------
\* Properties of connectToGitHub (under SpecGitHub)
\* ------------------------------------------------------------------------
InLog(e) == \E i \in 1..Len(ghLog) : ghLog[i] = e

Benign(err) == "\"statusCode\":200" \in err.msg

\* C4 as stated: a failure of verifyNoRunFromPackageSetting or
\* updateSourceControl (and any syncRepository failure that is not the benign
\* statusCode-200 one) makes connectToGitHub reject.
C4_ConnectFailurePropagated ==
    ghPc = "done" =>
        /\ connectErr # NoError => ghResult = "rejected"
        /\ (syncErr # NoError /\ ~Benign(syncErr)) => ghResult = "rejected"

\* C4 as amended: a failure of the connect step is not propagated itself; it
\* makes connectToGitHub call syncRepository, and connectToGitHub rejects if
\* and only if syncRepository then fails with an error that is not the benign
\* statusCode-200 one, rejecting with that sync error. When the connect step
\* did not fail, connectToGitHub completes successfully only after
\* updateSourceControl succeeded, and a failed GitHub request is propagated.
C4_ConnectFailureLeadsToSync ==
    ghPc = "done" =>
        /\ connectErr # NoError =>
            /\ InLog("syncRepository")
            /\ ghResult = "rejected" <=> (syncErr # NoError /\ ~Benign(syncErr))
            /\ ghResult = "rejected" => ghError = syncErr
        /\ connectErr = NoError =>
            /\ ghResult = "resolved" <=> InLog("showInformationMessage")
            /\ reqErr # NoError => (ghResult = "rejected" /\ ghError = reqErr)

\* updateSourceControl failed, the resync succeeded, connectToGitHub resolved.
C4_Witness ==
    /\ ghPc = "done"
    /\ connectErr.from = "updateSourceControl"
    /\ syncErr = NoError
    /\ ghResult = "resolved"

\* C5: syncRepository is called only after the connect step failed, never
\* after it succeeded; an error it throws is swallowed if and only if its
\* message contains "statusCode":200, and is otherwise rethrown to the caller.
C5_SyncErrorSwallowedIffStatus200 ==
    /\ InLog("syncRepository") =>
          (connectErr # NoError /\ ~InLog("showInformationMessage"))
    /\ (ghPc = "done" /\ syncErr # NoError) =>
          /\ ghResult = "resolved" <=> Benign(syncErr)
          /\ ~Benign(syncErr) => (ghResult = "rejected" /\ ghError = syncErr)

\* The benign sync error is swallowed after verifyNoRunFromPackageSetting failed.
C5_Witness ==
    /\ ghPc = "done"
    /\ connectErr.from = "verifyNoRunFromPackageSetting"
    /\ syncErr.msg = {"\"statusCode\":200"}
    /\ ghResult = "resolved"

PromptEvents == {"showErrorMessage", "openUrl", "openInPortal"}

\* C6: with no OAuth token, the re-authorization prompt is shown first, then
\* suppressErrorDisplay is set, then 'No oAuth2 Token.' is thrown; no GitHub
\* request, quick pick, updateSourceControl or syncRepository happens.
C6_NoTokenPath ==
    promptRet = "noToken" =>
        /\ requests = <<>>
        /\ \A i \in 1..Len(ghLog) : ghLog[i] \in PromptEvents \cup {"suppressErrorDisplay"}
        /\ ghPc = "prompt" => (~suppressErrorDisplay /\ ghResult = "running")
        /\ ghPc = "done" =>
            /\ suppressErrorDisplay
            /\ ghResult = "rejected" /\ ghError = noToken
            /\ Len(ghLog) >= 2
            /\ ghLog[1] = "showErrorMessage"
            /\ ghLog[Len(ghLog)] = "suppressErrorDisplay"
            /\ \A i \in 1..(Len(ghLog) - 1) : ghLog[i] \in PromptEvents

\* No token; the user chose 'Learn More', then 'Go to Portal'.
C6_Witness ==
    /\ promptRet = "noToken"
    /\ ghPc = "done"
    /\ properties.githubLearnMore /\ properties.githubGoToPortal

\* C7: every getJsonRequest call issues exactly one HTTP request. When the
\* request fails with 'Bad credentials' the prompt is shown and
\* suppressErrorDisplay set before the original error is rethrown; on any
\* other failure no prompt is shown, suppressErrorDisplay stays unset and the
\* original error is rethrown.
C7_GetJsonRequestNoRetry ==
    /\ reqInCall = (IF ghPc = "request" \/ reqRet = "none" THEN 0 ELSE 1)
    /\ (ghPc = "prompt" /\ promptRet = "getJsonRequest") =>
          (~suppressErrorDisplay /\ ghResult = "running")
    /\ (ghPc = "done" /\ reqErr # NoError) =>
          /\ ghResult = "rejected" /\ ghError = reqErr
          /\ IF "Bad credentials" \in reqErr.msg
               THEN /\ suppressErrorDisplay
                    /\ ghLog[Len(ghLog)] = "suppressErrorDisplay"
                    /\ \E i \in 1..(Len(ghLog) - 1) : ghLog[i] = "showErrorMessage"
               ELSE /\ ~suppressErrorDisplay
                    /\ ~InLog("showErrorMessage")

\* A repository page request (the fourth request or later) fails with 'Bad
\* credentials' and the error is rethrown after the prompt.
C7_Witness ==
    /\ ghPc = "done"
    /\ reqRet = "repos"
    /\ Len(requests) >= 4
    /\ "Bad credentials" \in reqErr.msg
    /\ ghResult = "rejected"

\* All repositories of organization o, as sorted picks.
AllRepoPicks(o) ==
    SortPicks([i \in 1..(repoPages * ReposPerPage) |->
        LET json == RepoJson(o, i) IN [label |-> json.name, data |-> json]])

HasLoadMore == shownPicks # <<>> /\ shownPicks[1] = LoadMorePick

\* C8: the repository picker requests only pages of the chosen organization's
\* repository listing; the picks it returns start with 'Load More' if and only
\* if a page of that listing is still unfetched; the cache holds the picks
\* loaded so far, sorted; and once no 'Load More' is offered every repository
\* of the organization is offered exactly once, sorted by label.
C8_LinkPagination ==
    /\ \A i \in 3..Len(requests) :
          requests[i].kind # "branches" =>
              (requests[i].kind = "repos" /\ requests[i].org = orgQuickPick.org)
    /\ ghPc = "repoPick" =>
          LET unfetched == {p \in 1..repoPages :
                              \A i \in 1..Len(requests) :
                                  requests[i] # ReposUrl(orgQuickPick.org, p)}
          IN  /\ HasLoadMore <=> unfetched # {}
              /\ picksCache = SortPicks(picksCache)
              /\ ~HasLoadMore => shownPicks = AllRepoPicks(orgQuickPick.org)

\* ------------------------------------------------------------------------
\* Properties of createAppService (under SpecCreate)
\* ------------------------------------------------------------------------
CaEvents(ev) == {i \in 1..Len(caLog) : caLog[i].ev = ev}

\* C9: SiteNameStep is the first prompt step and SiteCreateStep the last
\* execute step of the wizard createAppService builds; every prompt step has
\* run before any execute step runs; showCreatingTreeItem, when supplied, is
\* called exactly once, with the chosen site name, after the last prompt step
\* and before the first execute step; and when prompting fails no execute
\* step runs.
C9_WizardOrder ==
    /\ caPc \in {"prompt", "execute", "resolved"} =>
          /\ promptSteps # <<>> /\ promptSteps[1] = "SiteNameStep"
          /\ executeSteps # <<>> /\ executeSteps[Len(executeSteps)] = "SiteCreateStep"
    /\ \A i \in CaEvents("execute") : \A j \in CaEvents("prompt") : j < i
    /\ CaEvents("execute") # {} =>
          [j \in 1..Len(promptSteps) |-> caLog[j]] =
              [j \in 1..Len(promptSteps) |-> CaEvent("prompt", promptSteps[j])]
    /\ caPc \in {"execute", "resolved"} =>
          /\ Cardinality(CaEvents("showCreatingTreeItem")) = (IF hasShowCreating THEN 1 ELSE 0)
          /\ \A k \in CaEvents("showCreatingTreeItem") :
                /\ caLog[k].arg = wizardContext.newSiteName
                /\ caLog[k].arg \in {"site1", "site2"}
                /\ k = Len(promptSteps) + 1
                /\ \A i \in CaEvents("execute") : k < i
    /\ (caPc \in {"start", "prompt"} \/ (caPc = "rejected" /\ executeIdx = 0)) =>
          (CaEvents("execute") = {} /\ CaEvents("showCreatingTreeItem") = {})

\* An advanced web app creation with showCreatingTreeItem supplied ran to the
\* end; the user named the site "site2".
C9_Witness ==
    /\ caPc = "resolved"
    /\ hasShowCreating
    /\ appKind = "app" /\ createOptions.advancedCreation
    /\ wizardContext.newSiteName = "site2"
    /\ wizardContext.site = "site2"

\* C10: when createOptions.resourceGroup is passed in, newResourceGroupName
\* still equals it while the execute steps run, and ResourceGroupCreateStep is
\* scheduled exactly once.
C10_PassedResourceGroupUsed ==
    (caPc \in {"execute", "resolved"} /\ createOptions.resourceGroup # "undefined") =>
        /\ wizardContext.newResourceGroupName = createOptions.resourceGroup
        /\ Cardinality({i \in 1..Len(executeSteps) :
                            executeSteps[i] = "ResourceGroupCreateStep"}) = 1

\* C11: getSubWizard returns the plan-creation sub-wizard (name, SKU, resource
\* group and location prompts plus AppServicePlanCreateStep) exactly when no
\* existing plan is set on the context, and nothing otherwise; the step prompts
\* exactly when neither a plan nor a new plan name was set; and once prompt
\* has returned with an existing plan selected, the location is that plan's.
C11_PlanSubWizard ==
    /\ plPc = "done" =>
          subWizard =
              IF plCtx.plan = "undefined"
                THEN [defined |-> TRUE,
                      promptSteps |-> <<"AppServicePlanNameStep", "AppServicePlanSkuStep",
                                        "ResourceGroupListStep", "LocationListStep">>,
                      executeSteps |-> <<"AppServicePlanCreateStep">>]
                ELSE [defined |-> FALSE, promptSteps |-> <<>>, executeSteps |-> <<>>]
    /\ plPc # "start" =>
          (prompted <=> (plCtx0.plan = "undefined" /\ plCtx0.newPlanName = "undefined"))
    /\ (prompted /\ plPc \in {"getSubWizard", "done"} /\ plCtx.plan # "undefined") =>
          \E i \in 1..Len(ServerPlans) :
              /\ ServerPlans[i].name = plCtx.plan
              /\ plCtx.location = ServerPlans[i].location

\* The step prompted for a Linux site whose context had another location, the
\* user picked the existing plan, and getSubWizard returned nothing.
C11_Witness ==
    /\ plPc = "done"
    /\ prompted
    /\ plCtx0.location = "westus"
    /\ plCtx.plan = "plan1"
    /\ plCtx.location = "eastus"
    /\ ~subWizard.defined

\* C15: the list-all-plans request is started at most once per wizard context:
\* as soon as any caller has called getPlans exactly one request exists, every
\* caller (also one that called while the request was pending, or after it had
\* failed) awaits that request, and what each caller received is that
\* request's outcome.
C15_OnePlansRequest ==
    /\ Len(tasks) <= 1
    /\ \A c \in PlanCallers :
          /\ awaiting[c] # 0 => (Len(tasks) = 1 /\ awaiting[c] = 1)
          /\ got[c].outcome # "none" =>
                /\ got[c].task = 1
                /\ got[c].outcome \in {"resolved", "rejected"}
                /\ got[c].outcome = tasks[1]
    /\ \A c \in NameCallers : nameCall[c].pc # "idle" => awaiting[c] = 1
    /\ prompted => awaiting[0] = 1

\* The quick-pick builder started the request, one isNameAvailable call was
\* made while it was pending and another after it had failed, and all three
\* received the failure.
C15_Witness ==
    /\ got[0].outcome = "rejected"
    /\ \E c1, c2 \in NameCallers :
          /\ nameCall[c1].seen = "pending" /\ got[c1].outcome = "rejected"
          /\ nameCall[c2].seen = "rejected" /\ got[c2].outcome = "rejected"

LogCount(e) == Cardinality({i \in 1..Len(ghLog) : ghLog[i] = e})

C12_PromptCounts ==
    /\ LogCount("openUrl") = learnMores
    /\ properties.githubLearnMore <=> learnMores > 0
    /\ \A i \in 1..Len(ghLog) :
          /\ ghLog[i] = "openUrl" =>
                /\ i > 1 /\ ghLog[i - 1] = "showErrorMessage"
                /\ i < Len(ghLog) => ghLog[i + 1] = "showErrorMessage"
          /\ ghLog[i] = "openInPortal" =>
                /\ i > 1 /\ ghLog[i - 1] = "showErrorMessage"
                /\ \A j \in (i + 1)..Len(ghLog) : ghLog[j] \notin PromptEvents
    /\ ghPc = "prompt" =>
          /\ promptInput \in {"none", "learnMore"}
          /\ promptInput = "learnMore" <=> learnMores > 0
          /\ LogCount("showErrorMessage") = learnMores
          /\ LogCount("openInPortal") = 0
          /\ ~properties.githubGoToPortal
    /\ ghPc # "prompt" =>
          /\ promptInput \in {"none", "goToPortal", "undefined"}
          /\ LogCount("showErrorMessage") = (IF promptInput = "none" THEN 0 ELSE learnMores + 1)
          /\ LogCount("openInPortal") = (IF promptInput = "goToPortal" THEN 1 ELSE 0)
          /\ properties.githubGoToPortal <=> promptInput = "goToPortal"

\* C12: showGitHubAuthPrompt shows the dialog again after every 'Learn More',
\* each time opening the URL and recording githubLearnMore, and returns on the
\* first other answer; the portal is opened, and githubGoToPortal recorded,
\* exactly once if that answer was 'Go to Portal' and never otherwise; and a
\* user who eventually answers something other than 'Learn More' makes the
\* prompt end.
C12_AuthPromptLoop ==
    /\ []C12_PromptCounts
    /\ (ghPc = "prompt") ~> (promptInput \in {"goToPortal", "undefined"})

\* After a failed request with bad credentials the user chose 'Learn More'
\* twice and then 'Go to Portal'.
C12_Witness ==
    /\ promptRet = "getJsonRequest"
    /\ learnMores = 2
    /\ promptInput = "goToPortal"
    /\ properties.githubLearnMore /\ properties.githubGoToPortal
    /\ LogCount("showErrorMessage") = 3
    /\ LogCount("openInPortal") = 1

\* The 'next' URL of the Link header of the response to u; NoUrl when the
\* response has no Link header or the header has no 'next'.
NextOfResponse(u) ==
    IF LinkHeader(u) = <<>> THEN NoUrl
    ELSE parseLinkHeaderToGitHubLinkObject(LinkHeader(u)).next

\* C13: after every answered getJsonRequest, requestOptions.nextLink is the
\* 'next' URL of that response's Link header, and unset when the response has
\* no Link header or no 'next'; so the repository paging loop requests only
\* the first page of the chosen organization's repositories or the 'next' URL
\* of an earlier repository response, and no URL is requested twice.
C13_NextLinkOfLastResponse ==
    LET n == IF ghPc = "awaitResponse" THEN Len(requests) - 1 ELSE Len(requests)
    IN  /\ (n >= 1 /\ reqErr = NoError) => nextLink = NextOfResponse(requests[n])
        /\ \A i \in 3..Len(requests) :
              requests[i].kind # "branches" =>
                  \/ requests[i] = ReposUrl(orgQuickPick.org, 1)
                  \/ \E j \in 3..(i - 1) :
                        /\ requests[j].kind = "repos"
                        /\ requests[i] = NextOfResponse(requests[j])
        /\ \A i, j \in 1..Len(requests) : i # j => requests[i] # requests[j]

\* C14: createTreeItemsWithErrorHandling only ever resolves, and only after
\* every callback has finished; the returned list has exactly one entry, the
\* produced item, for each source whose createTreeItem produced an item, no
\* entry for a source that produced nothing, no item that was not produced,
\* and at most one element more than the source list.
C14_NoItemLost ==
    /\ treePc \in {"awaitAll", "returned"}
    /\ Len(treeItems) <= NumSources + 1
    /\ treePc = "returned" =>
          /\ \A s \in Sources : cb[s] = "done" /\ created[s] \in {"item", "nothing", "throw"}
          /\ \A s \in Sources :
                /\ created[s] = "item" =>
                      /\ Cardinality(NodesOf(s)) = 1
                      /\ \A k \in NodesOf(s) : treeItems[k] = RealTreeItem(s)
                /\ created[s] = "nothing" => NodesOf(s) = {}
          /\ \A k \in 1..Len(treeItems) :
                treeItems[k].kind = "real" => created[treeItems[k].src] = "item"

\* The list was returned after one source produced an item, one produced
\* nothing and one failed without a label, the failing one finishing first.
C14_Witness ==
    /\ treePc = "returned"
    /\ \E s1, s2, s3 \in Sources :
          /\ created[s1] = "item" /\ created[s2] = "nothing" /\ created[s3] = "throw"
          /\ s3 < s1
          /\ labelRes[s3] = "throw"
          /\ AggregateNodes # {}
          /\ \A k \in NodesOf(s1) : \A a \in AggregateNodes : k < a
    /\ Len(treeItems) = 2

====
